---- MODULE Spec2Model ----
(***************************************************************************)
(* Model of the metadata generator (make_metadata_from_filenames.py) and   *)
(* of the viewer (streamlit_viewer.py).                                    *)
(*                                                                         *)
(* A Python str is a sequence of one-character strings.  A table cell is   *)
(* a str, or the marker NaN (pandas' missing value).  A float is a decimal *)
(* [present, mant, exp] standing for mant / 10^exp.                        *)
(***************************************************************************)
EXTENDS Integers, Sequences, FiniteSets, TLC

VARIABLES
    name,        \* parse_filename: the argument of the call under test
    parsed,      \* parse_filename: its outcome ("none" before the call)
    listing,     \* generator: sorted(root.iterdir()), a sequence of entries
    idx,         \* generator: position of the for loop in listing (next entry)
    rows,        \* generator: rows
    errors,      \* generator: errors
    csv_file,    \* the persisted metadata.csv: [written, rows]
    viewer       \* the viewer's last script run (see ViewerIdle)

vars == <<name, parsed, listing, idx, rows, errors, csv_file, viewer>>

----------------------------------------------------------------------------
(* Characters and Python's str primitives.                                 *)

\* The characters of the model in code-point order (a subset of ASCII).
Ascii ==
    << " ", ".",
       "0", "1", "2", "3", "4", "5", "6", "7", "8", "9",
       "A", "B", "C", "D", "E", "F", "G", "H", "I", "J", "K", "L", "M",
       "N", "O", "P", "Q", "R", "S", "T", "U", "V", "W", "X", "Y", "Z",
       "_",
       "a", "b", "c", "d", "e", "f", "g", "h", "i", "j", "k", "l", "m",
       "n", "o", "p", "q", "r", "s", "t", "u", "v", "w", "x", "y", "z" >>

Chars == {Ascii[i] : i \in 1..Len(Ascii)}

\* ord(c), up to an order-preserving renumbering; 0 for a non-character.
OrdTable == [c \in Chars |-> CHOOSE i \in 1..Len(Ascii) : Ascii[i] = c]
Ord(c) == IF c \in Chars THEN OrdTable[c] ELSE 0

Digits == {"0", "1", "2", "3", "4", "5", "6", "7", "8", "9"}
DigitVal(c) == Ord(c) - Ord("0")
DigitChar(d) == Ascii[Ord("0") + d]

IsUpper(c) == c \in Chars /\ Ord(c) >= Ord("A") /\ Ord(c) <= Ord("Z")
LowerChar(c) == IF IsUpper(c) THEN Ascii[Ord(c) - Ord("A") + Ord("a")] ELSE c

\* str.lower()
Lower(s) == [i \in 1..Len(s) |-> LowerChar(s[i])]

IsSpace(c) == c = " "

\* str.strip()
RECURSIVE LStrip(_)
LStrip(s) == IF s # <<>> /\ IsSpace(Head(s)) THEN LStrip(Tail(s)) ELSE s
RECURSIVE RStrip(_)
RStrip(s) ==
    IF s # <<>> /\ IsSpace(s[Len(s)]) THEN RStrip(SubSeq(s, 1, Len(s) - 1)) ELSE s
Strip(s) == RStrip(LStrip(s))

\* a <= b for two str (lexicographic by code point), as sorted() compares.
RECURSIVE StrLeq(_, _)
StrLeq(a, b) ==
    IF a = <<>> THEN TRUE
    ELSE IF b = <<>> THEN FALSE
    ELSE IF Head(a) = Head(b) THEN StrLeq(Tail(a), Tail(b))
    ELSE Ord(Head(a)) < Ord(Head(b))

StrLt(a, b) == a # b /\ StrLeq(a, b)

\* str.split(sep) for a one-character sep: the list of tokens.
RECURSIVE SplitFrom(_, _, _)
SplitFrom(s, sep, cur) ==
    IF s = <<>> THEN <<cur>>
    ELSE IF Head(s) = sep THEN <<cur>> \o SplitFrom(Tail(s), sep, <<>>)
    ELSE SplitFrom(Tail(s), sep, Append(cur, Head(s)))
Split(s, sep) == SplitFrom(s, sep, <<>>)

\* sep.join(parts)
RECURSIVE Join(_, _)
Join(parts, sep) ==
    IF parts = <<>> THEN <<>>
    ELSE IF Len(parts) = 1 THEN parts[1]
    ELSE parts[1] \o <<sep>> \o Join(Tail(parts), sep)

\* str.replace(old, new) for one-character old and new.
Replace(s, old, new) == [i \in 1..Len(s) |-> IF s[i] = old THEN new ELSE s[i]]

\* str.rfind("."), 1-based; 0 when there is none.
RFindDot(s) ==
    IF \E i \in 1..Len(s) : s[i] = "."
    THEN CHOOSE i \in 1..Len(s) : s[i] = "." /\ \A j \in (i+1)..Len(s) : s[j] # "."
    ELSE 0

\* pathlib: PurePath.suffix and PurePath.stem of a bare file name.
HasSuffix(n) == RFindDot(n) > 1 /\ RFindDot(n) < Len(n)
PathSuffix(n) == IF HasSuffix(n) THEN SubSeq(n, RFindDot(n), Len(n)) ELSE <<>>
PathStem(n) == IF HasSuffix(n) THEN SubSeq(n, 1, RFindDot(n) - 1) ELSE n

----------------------------------------------------------------------------
(* Floats, as far as the magnification needs them.                         *)

NoValue == [present |-> FALSE, mant |-> 0, exp |-> 0]

RECURSIVE Normalize(_, _)
Normalize(m, e) ==
    IF e > 0 /\ m % 10 = 0 THEN Normalize(m \div 10, e - 1)
    ELSE [present |-> TRUE, mant |-> m, exp |-> e]

\* int(digits)
RECURSIVE DigitsToNat(_)
DigitsToNat(s) ==
    IF s = <<>> THEN 0
    ELSE 10 * DigitsToNat(SubSeq(s, 1, Len(s) - 1)) + DigitVal(s[Len(s)])

IsDigits(s) == s # <<>> /\ \A i \in 1..Len(s) : s[i] \in Digits

\* The text matches [0-9]+(\.[0-9]+)?
IsNumeral(s) ==
    \/ IsDigits(s)
    \/ \E i \in 2..(Len(s) - 1) :
          /\ s[i] = "."
          /\ IsDigits(SubSeq(s, 1, i - 1))
          /\ IsDigits(SubSeq(s, i + 1, Len(s)))

\* float(text) for a text that IsNumeral.
Float(s) ==
    IF IsDigits(s) THEN Normalize(DigitsToNat(s), 0)
    ELSE LET i == CHOOSE k \in 2..(Len(s) - 1) : s[k] = "."
             frac == SubSeq(s, i + 1, Len(s))
         IN  Normalize(DigitsToNat(SubSeq(s, 1, i - 1) \o frac), Len(frac))

\* str(n) for a natural number.
RECURSIVE NatToStr(_)
NatToStr(n) ==
    IF n < 10 THEN <<DigitChar(n)>>
    ELSE Append(NatToStr(n \div 10), DigitChar(n % 10))

RECURSIVE Pow10(_)
Pow10(e) == IF e = 0 THEN 1 ELSE 10 * Pow10(e - 1)

RECURSIVE ZeroPad(_, _)
ZeroPad(s, w) == IF Len(s) >= w THEN s ELSE ZeroPad(<<"0">> \o s, w)

\* repr(float): "10.0", "10.5", "0.25".
FloatRepr(v) ==
    IF v.exp = 0 THEN NatToStr(v.mant) \o <<".", "0">>
    ELSE NatToStr(v.mant \div Pow10(v.exp)) \o <<".">>
         \o ZeroPad(NatToStr(v.mant % Pow10(v.exp)), v.exp)

----------------------------------------------------------------------------
(* make_metadata_from_filenames.py: parse_filename                         *)

Sep == "_"

\* re.match(r"^\s*([0-9]+(\.[0-9]+)?)\s*[xX]?\s*$", tmp): group(1), or <<>>
\* when there is no match.
RECURSIVE TakeDigits(_)
TakeDigits(s) ==
    IF s # <<>> /\ Head(s) \in Digits THEN <<Head(s)>> \o TakeDigits(Tail(s))
    ELSE <<>>

Drop(s, k) == SubSeq(s, k + 1, Len(s))

MagMatch(tmp) ==
    LET s0 == LStrip(tmp)
        int == TakeDigits(s0)
        s1 == Drop(s0, Len(int))
        frac == IF s1 # <<>> /\ Head(s1) = "." THEN TakeDigits(Tail(s1)) ELSE <<>>
        num == IF frac # <<>> THEN int \o <<".">> \o frac ELSE int
        s2 == LStrip(Drop(s0, Len(num)))
        s3 == IF s2 # <<>> /\ Head(s2) \in {"x", "X"} THEN Tail(s2) ELSE s2
    IN  IF int # <<>> /\ LStrip(s3) = <<>> THEN num ELSE <<>>

\* Lines 53-61: the numeric value of the raw magnification text.
MagValue(mag_text) ==
    LET tmp == Replace(mag_text, Sep, ".")
        g1 == MagMatch(tmp)
    IN  IF g1 # <<>> THEN Float(g1) ELSE NoValue

MinTokens == 5

\* parse_filename with the sample span ending one token too early.
parse_filename_short_sample(n) ==
    LET stem == PathStem(n)
        parts == Split(stem, Sep)
        k == Len(parts)
    IN  IF k < MinTokens
        THEN [ok |-> FALSE, ntokens |-> k, stem |-> stem]
        ELSE [ok |-> TRUE,
              method |-> parts[1],
              location |-> parts[2],
              sample |-> IF k = 5 THEN parts[3]
                         ELSE Join(SubSeq(parts, 3, k - 3), Sep),
              mode |-> parts[k - 1],
              magnification |-> parts[k],
              magnification_value |-> MagValue(parts[k]),
              ext |-> Lower(PathSuffix(n))]

\* The record parse_filename returns or the ValueError it raises.
parse_filename(n) ==
    LET ext == PathSuffix(n)
        stem == PathStem(n)
        parts == Split(stem, Sep)
        k == Len(parts)
    IN  IF k < MinTokens
        THEN [ok |-> FALSE, ntokens |-> k, stem |-> stem]
        ELSE [ok |-> TRUE,
              method |-> parts[1],
              location |-> parts[2],
              sample |-> IF k = 5 THEN parts[3]
                         ELSE Join(SubSeq(parts, 3, k - 2), Sep),
              mode |-> IF k = 5 THEN parts[4] ELSE parts[k - 1],
              magnification |-> IF k = 5 THEN parts[5] ELSE parts[k],
              magnification_value |->
                  MagValue(IF k = 5 THEN parts[5] ELSE parts[k]),
              ext |-> Lower(ext)]

----------------------------------------------------------------------------
(* make_metadata_from_filenames.py: main                                   *)

\* A str literal, spelt out once.
S_png == <<".", "p", "n", "g">>
S_jpg == <<".", "j", "p", "g">>
S_jpeg == <<".", "j", "p", "e", "g">>
S_tif == <<".", "t", "i", "f">>
S_tiff == <<".", "t", "i", "f", "f">>
S_bmp == <<".", "b", "m", "p">>
S_gif == <<".", "g", "i", "f">>
S_webp == <<".", "w", "e", "b", "p">>
S_dcm == <<".", "d", "c", "m">>

DEFAULT_EXTS == {S_png, S_jpg, S_jpeg, S_tif, S_tiff, S_bmp, S_gif, S_webp, S_dcm}

\* Line 87, for the default --ext: every entry lowercased, with its dot.
exts == {IF e # <<>> /\ Head(e) = "." THEN Lower(e) ELSE <<".">> \o Lower(e)
         : e \in DEFAULT_EXTS}

\* Lines 98-108: the row written for a parsed file p.
RecOut(n, rec) ==
    [filename |-> n,
     method |-> rec.method,
     location |-> rec.location,
     sample |-> rec.sample,
     mode |-> rec.mode,
     magnification |-> rec.magnification,
     magnification_value |-> rec.magnification_value,
     ext |-> rec.ext,
     rel_path |-> n]

\* An except branch that swallows the failure.
OnParseError_swallow(acc, n, rec) == acc

\* Lines 110-111: the except branch; str(e) carries the token count and stem.
OnParseError(acc, n, rec) ==
    [acc EXCEPT !.errors =
        Append(@, [filename |-> n, ntokens |-> rec.ntokens, stem |-> rec.stem])]

\* Lines 92-111: one iteration of the for loop over an entry p.
LoopBody(acc, p) ==
    IF ~p.is_file THEN acc
    ELSE IF Lower(PathSuffix(p.name)) \notin exts THEN acc
    ELSE LET rec == parse_filename(p.name)
         IN  IF rec.ok
             THEN [acc EXCEPT !.rows = Append(@, RecOut(p.name, rec))]
             ELSE OnParseError(acc, p.name, rec)

\* Lines 116-134: csv.DictWriter writes str(value) of every field.
CsvCell(col, value) ==
    IF col = "magnification_value"
    THEN (IF value.present THEN FloatRepr(value) ELSE <<>>)
    ELSE value

Columns ==
    <<"filename", "method", "location", "sample", "mode", "magnification",
      "magnification_value", "ext", "rel_path">>

ColumnSet == {Columns[i] : i \in 1..Len(Columns)}

CsvRow(r) == [c \in ColumnSet |-> CsvCell(c, r[c])]

WriteRows(rs) == [i \in 1..Len(rs) |-> CsvRow(rs[i])]

----------------------------------------------------------------------------
(* streamlit_viewer.py: load_metadata                                      *)

\* pandas' missing value in a column of objects; no str equals it.
NaN == <<"NaN">>

S_nan == <<"n", "a", "n">>

\* The texts pd.read_csv reads as missing (its default na_values), as far
\* as the characters of the model spell them.
NaTexts ==
    { <<>>, <<"N", "A">>, <<"N", "a", "N">>, S_nan,
      <<"N", "U", "L", "L">>, <<"n", "u", "l", "l">>, <<"N", "o", "n", "e">> }

\* pd.read_csv infers one dtype per column from its texts that are not
\* missing: int64 when all are integers and none is missing, float64 when
\* all are numbers, object otherwise.
ColumnKind(cells) ==
    LET present == {i \in 1..Len(cells) : cells[i] \notin NaTexts}
    IN  IF \A i \in present : IsDigits(cells[i])
        THEN (IF present = 1..Len(cells) THEN "int64" ELSE "float64")
        ELSE IF \A i \in present : IsNumeral(cells[i]) THEN "float64"
        ELSE "object"

\* A conversion that leaves a missing value missing.
MissingKept == NaN

\* Series.astype(str) of one missing value.
MissingAsStr == S_nan

\* One cell of a column read by pd.read_csv and then passed through
\* astype(str), lines 77-87.
ReadAsStr(kind, text) ==
    IF text \in NaTexts THEN MissingAsStr
    ELSE IF kind = "int64" THEN NatToStr(DigitsToNat(text))
    ELSE IF kind = "float64" THEN FloatRepr(Float(text))
    ELSE text

\* One cell of a column read by pd.read_csv and then passed through
\* pd.to_numeric(errors="coerce"), lines 72-75.
ReadAsNumber(kind, text) ==
    IF text \in NaTexts THEN NoValue
    ELSE IF kind = "object" THEN (IF IsNumeral(text) THEN Float(text) ELSE NoValue)
    ELSE Float(text)

\* Line 52: c.strip().lower() of the header spellings of the model.
NormalizeColumn(c) ==
    IF c = "Rel_Path" THEN "rel_path"
    ELSE IF c = " Method" THEN "method"
    ELSE c

\* A required set that forgets one column.
required_without_mode ==
    {"filename", "method", "location", "sample", "magnification", "ext", "rel_path"}

\* Lines 54-63.
required ==
    {"filename", "method", "location", "sample", "mode", "magnification",
     "ext", "rel_path"}

\* Lines 77-86.
StrColumns ==
    {"method", "location", "sample", "mode", "magnification", "filename",
     "ext", "rel_path"}

\* The header spelling under which the file stores column c, if any.
Stored(hdr, c) == {h \in hdr : NormalizeColumn(h) = c}

\* The table of a successful load: every column of the file read with its
\* inferred dtype, the key columns as str, magnification_value as a number
\* (all missing when the file has no such column, lines 69-70).
LoadedTable(file_rows, hdr) ==
    LET col(c) == [i \in 1..Len(file_rows) |-> file_rows[i][c]]
        kind == [c \in ColumnSet |-> ColumnKind(col(c))]
    IN  [i \in 1..Len(file_rows) |->
            [c \in ColumnSet |->
                IF c \in StrColumns THEN ReadAsStr(kind[c], file_rows[i][c])
                ELSE IF Stored(hdr, c) = {} THEN NoValue
                ELSE ReadAsNumber(kind[c], file_rows[i][c])]]

\* load_metadata on a file with header hdr: the table, or how the load ended.
load_metadata(file_rows, hdr) ==
    LET columns == {NormalizeColumn(h) : h \in hdr}
        missing == required \ columns
        absent == ColumnSet \ columns
    IN  IF "rel_path" \notin hdr
        THEN [status |-> "KeyError", missing |-> absent, report |-> {}, df |-> <<>>]
        ELSE IF missing # {}
        THEN [status |-> "stopped", missing |-> absent, report |-> missing,
              df |-> <<>>]
        ELSE [status |-> "loaded", missing |-> absent, report |-> {},
              df |-> LoadedTable(file_rows, hdr)]

----------------------------------------------------------------------------
(* streamlit_viewer.py: filtered_df                                        *)

\* Series.str.contains(key): re.search with key as the pattern.  Of the
\* characters of the model only "." is special: it matches any character.
Contains(text, key) ==
    /\ text # NaN
    /\ \E start \in 0..(Len(text) - Len(key)) :
          \A j \in 1..Len(key) : key[j] = "." \/ key[j] = text[start + j]

\* Lines 105-110.
TextFilter(df, q) ==
    IF Strip(q) # <<>>
    THEN LET key == Lower(Strip(q))
         IN  SelectSeq(df, LAMBDA r : \/ Contains(Lower(r.sample), key)
                                      \/ Contains(Lower(r.filename), key))
    ELSE df

\* df[col].dropna().unique(): the options a multiselect offers.
Options(df, col) == {df[i][col] : i \in 1..Len(df)} \ {NaN}

\* Lines 121-125.
FacetFilter(df, sel) ==
    SelectSeq(df, LAMBDA r : /\ r.method \in sel.method
                             /\ r.location \in sel.location
                             /\ r.mode \in sel.mode)

\* Line 132.
MagFilter(df, sel) == SelectSeq(df, LAMBDA r : r.magnification \in sel.magnification)

\* filtered_df for the search text q and the four selections sel.
filtered_df(df, q, sel) == MagFilter(FacetFilter(TextFilter(df, q), sel), sel)

\* The options offered by the four multiselects, given the widgets above.
Offered(df, q, sel) ==
    LET d1 == TextFilter(df, q)
    IN  [method |-> Options(d1, "method"),
         location |-> Options(d1, "location"),
         mode |-> Options(d1, "mode"),
         magnification |-> Options(FacetFilter(d1, sel), "magnification")]

----------------------------------------------------------------------------
(* streamlit_viewer.py: main, the selection and grouping of lines 281-304   *)

GroupAxes == {"method", "location", "sample", "mode", "magnification"}
ViewModes == {"By Sample", "By Method"}

PinnedColumn(view_mode) == IF view_mode = "By Sample" THEN "sample" ELSE "method"

\* sorted(values) of a set of str.
RECURSIVE Sorted(_)
Sorted(S) ==
    IF S = {} THEN <<>>
    ELSE LET m == CHOOSE x \in S : \A y \in S : StrLeq(x, y)
         IN  <<m>> \o Sorted(S \ {m})

\* The order of sort_values([group_axis, "filename"]).
RowLeq(a, b, group_axis) ==
    \/ StrLt(a[group_axis], b[group_axis])
    \/ a[group_axis] = b[group_axis] /\ StrLeq(a.filename, b.filename)

\* sort_values on several keys is a stable sort.
RECURSIVE InsertRow(_, _, _)
InsertRow(r, s, group_axis) ==
    IF s = <<>> THEN <<r>>
    ELSE IF RowLeq(Head(s), r, group_axis)
    THEN <<Head(s)>> \o InsertRow(r, Tail(s), group_axis)
    ELSE <<r>> \o s

RECURSIVE SortValues(_, _)
SortValues(df, group_axis) ==
    IF df = <<>> THEN <<>>
    ELSE InsertRow(df[Len(df)], SortValues(SubSeq(df, 1, Len(df) - 1), group_axis),
                   group_axis)

\* A selection that keeps every row.
Restrict_all(df, col, choice) == df

\* df[df[col] == choice]
Restrict(df, col, choice) == SelectSeq(df, LAMBDA r : r[col] = choice)

\* subset.groupby(group_axis): the groups in ascending key order, the rows
\* of a group in their order in subset; rows with a missing key are dropped.
GroupBy(subset, group_axis) ==
    LET keys == Sorted(Options(subset, group_axis))
    IN  [k \in 1..Len(keys) |->
            [key |-> keys[k],
             rows |-> SelectSeq(subset, LAMBDA r : r[group_axis] = keys[k])]]

\* Lines 287-291 and 299-303: the groups handed to grid_show.
Groups(df, view_mode, group_axis, choice) ==
    GroupBy(SortValues(Restrict(df, PinnedColumn(view_mode), choice), group_axis),
            group_axis)

----------------------------------------------------------------------------
(* Inputs.                                                                 *)

MaxTokens == 6      \* tokens of a file name given to parse_filename
MaxFiles == 3       \* entries of the scanned folder
MaxDropped == 1     \* columns a metadata.csv found by the viewer may lack
MaxDeselected == 1  \* values the user deselects in one multiselect

S_PCM == <<"P", "C", "M">>
S_DIC == <<"D", "I", "C">>
S_BIU == <<"B", "I", "U">>
S_LAB == <<"L", "A", "B">>
S_NA == <<"N", "A">>
S_POL == <<"P", "O", "L">>
S_foo == <<"f", "o", "o">>
S_glassLube == <<"g", "l", "a", "s", "s", "L", "u", "b", "e">>
S_glass == <<"g", "l", "a", "s", "s">>
S_lube == <<"l", "u", "b", "e">>
S_extra == <<"e", "x", "t", "r", "a">>
S_10 == <<"1", "0">>
S_10x == <<"1", "0", "x">>
S_20x == <<"2", "0", "x">>
S_5x == <<"5", "x">>
S_bad == <<"b", "a", "d">>
S_notes == <<"n", "o", "t", "e", "s">>
S_txt == <<".", "t", "x", "t">>
S_JPG == <<".", "J", "P", "G">>

\* The file names given to parse_filename on its own: up to MaxTokens
\* tokens joined by "_", then a tail glued to the last token, then a suffix.
Tokens == {<<>>, S_NA, S_10}
Tails == {<<>>, <<"x">>, <<"X">>, <<".", "5", "x">>, <<"_", "5", "x">>, <<" ", "x", " ">>}
Suffixes == {S_jpg, <<>>}

TokenLists == UNION {[1..k -> Tokens] : k \in 1..MaxTokens}

ParseNames ==
    {Join(ts, Sep) \o tl \o sfx : ts \in TokenLists, tl \in Tails, sfx \in Suffixes}

\* The entries a scanned folder may hold.
File(n) == [name |-> n, is_file |-> TRUE]
Dir(n) == [name |-> n, is_file |-> FALSE]

DirEntries ==
    { File(Join(<<S_PCM, S_BIU, S_glassLube, S_NA, S_10x>>, Sep) \o S_jpg),
      File(Join(<<S_DIC, S_LAB, S_foo, S_POL, S_20x>>, Sep) \o S_png),
      File(S_bad \o S_jpg),
      File(<<"B", "A", "D", Sep>> \o S_10x \o S_jpg),
      File(Join(<<S_PCM, S_BIU, S_glass, S_lube, S_extra, S_NA, S_10x>>, Sep) \o S_jpg),
      File(Join(<<S_PCM, S_LAB, S_foo, S_POL, S_10, S_5x>>, Sep) \o S_JPG),
      File(S_notes \o S_txt),
      Dir(Join(<<S_DIC, S_LAB, S_foo, S_NA, S_5x>>, Sep) \o S_png) }

\* sorted(root.iterdir()): the entries of one folder in path order.
RECURSIVE SortedEntries(_)
SortedEntries(S) ==
    IF S = {} THEN <<>>
    ELSE LET m == CHOOSE x \in S : \A y \in S : StrLeq(x.name, y.name)
         IN  <<m>> \o SortedEntries(S \ {m})

Listings ==
    {SortedEntries(S) : S \in {X \in SUBSET DirEntries : Cardinality(X) <= MaxFiles}}

\* Lines 88-111: rows and errors after the loop over a whole listing.
RECURSIVE Scan(_)
Scan(l) ==
    IF l = <<>> THEN [rows |-> <<>>, errors |-> <<>>]
    ELSE LoopBody(Scan(SubSeq(l, 1, Len(l) - 1)), l[Len(l)])

\* The files the generator writes for the folders of the model.
CsvFiles == {WriteRows(Scan(l).rows) : l \in Listings}

\* The headers of the metadata.csv the viewer may find: the generator's
\* header, with up to MaxDropped columns missing and possibly one column
\* spelt another way.
Respell(hdr, c, as) == IF c \in hdr THEN (hdr \ {c}) \cup {as} ELSE hdr

HeaderChoices ==
    LET dropped == {ColumnSet \ D :
                       D \in {X \in SUBSET ColumnSet : Cardinality(X) <= MaxDropped}}
    IN  dropped
        \cup {Respell(h, "rel_path", "Rel_Path") : h \in dropped}
        \cup {Respell(h, "method", " Method") : h \in dropped}

\* The texts typed into the search box.
Queries == {<<>>, <<" ">>, <<" ", "F", "o", "o">>, <<"p", ".", "m">>}

\* The selections of one multiselect with the given options.
Selections(options) ==
    {options \ D : D \in {X \in SUBSET options : Cardinality(X) <= MaxDeselected}}

----------------------------------------------------------------------------
(* The state machine.                                                      *)

NotCalled == [called |-> FALSE]

EmptySel == [method |-> {}, location |-> {}, mode |-> {}, magnification |-> {}]

\* The viewer before its first script run.  status is how the last run
\* ended: "idle", "KeyError" or "stopped" (load_metadata did not return),
\* "no_data" (st.stop at lines 283-285 or 295-297) or "shown".  missing and
\* has_rel_path describe the header of the file the last load found.
ViewerIdle ==
    [status |-> "idle", missing |-> {}, has_rel_path |-> FALSE, report |-> {},
     cached |-> FALSE,
     first |-> TRUE, df |-> <<>>,
     view_mode |-> "By Sample", group_axis |-> "method", choice |-> <<>>,
     groups |-> <<>>, q |-> <<>>, sel |-> EmptySel, offered |-> EmptySel,
     filtered |-> <<>>]

GeneratorIdle ==
    /\ listing = <<>>
    /\ idx = 1
    /\ rows = <<>>
    /\ errors = <<>>
    /\ csv_file = [written |-> FALSE, rows |-> <<>>]
    /\ viewer = ViewerIdle

\* parse_filename called on its own.
InitParse ==
    /\ name \in ParseNames
    /\ parsed = NotCalled
    /\ GeneratorIdle

Parse ==
    /\ ~parsed.called
    /\ parsed' = [called |-> TRUE, result |-> parse_filename(name)]
    /\ UNCHANGED <<name, listing, idx, rows, errors, csv_file, viewer>>

NextParse == Parse

SpecParse == InitParse /\ [][NextParse]_vars

\* The generator run over a folder, then the viewer on the file it wrote.
Init ==
    /\ name = <<>>
    /\ parsed = NotCalled
    /\ listing \in Listings
    /\ idx = 1
    /\ rows = <<>>
    /\ errors = <<>>
    /\ csv_file = [written |-> FALSE, rows |-> <<>>]
    /\ viewer = ViewerIdle

\* Generator, lines 91-111: the for loop takes the next entry.
ScanStep ==
    /\ ~csv_file.written
    /\ idx <= Len(listing)
    /\ LET acc == LoopBody([rows |-> rows, errors |-> errors], listing[idx])
       IN  /\ rows' = acc.rows
           /\ errors' = acc.errors
    /\ idx' = idx + 1
    /\ UNCHANGED <<name, parsed, listing, csv_file, viewer>>

\* Generator, lines 113-142: after the loop the rows are written.
WriteCsv ==
    /\ ~csv_file.written
    /\ idx = Len(listing) + 1
    /\ csv_file' = [written |-> TRUE, rows |-> WriteRows(rows)]
    /\ UNCHANGED <<name, parsed, listing, idx, rows, errors, viewer>>

\* Viewer, main from line 268 on, with the table df and the widget values
\* given: selection and grouping first, the sidebar filters last.
Render(df, missing, first, view_mode, group_axis, choice, q, sel) ==
    LET options == Sorted({df[i][PinnedColumn(view_mode)] : i \in 1..Len(df)})
    IN  IF options = <<>>
        THEN [ViewerIdle EXCEPT !.status = "no_data", !.missing = missing,
                                !.has_rel_path = TRUE, !.cached = TRUE, !.first = first, !.df = df,
                                !.view_mode = view_mode, !.group_axis = group_axis]
        ELSE [status |-> "shown", missing |-> missing, has_rel_path |-> TRUE,
              report |-> {},
              cached |-> TRUE, first |-> first, df |-> df, view_mode |-> view_mode, group_axis |-> group_axis,
              choice |-> choice,
              groups |-> Groups(df, view_mode, group_axis, choice),
              q |-> q, sel |-> sel, offered |-> Offered(df, q, sel),
              filtered |-> filtered_df(df, q, sel)]

\* The widget values of a session's first run: every widget at its default.
FirstRender(df, missing) ==
    LET options == Sorted({df[i].sample : i \in 1..Len(df)})
        all == Offered(df, <<>>, EmptySel)
        sel == [all EXCEPT !.magnification = Options(FacetFilter(df, all), "magnification")]
    IN  Render(df, missing, TRUE, "By Sample", "method",
               IF options = <<>> THEN <<>> ELSE options[1], <<>>, sel)

\* Viewer: the first script run has no cached table and calls load_metadata
\* on the metadata.csv it finds.  A run after a failed load reads the same
\* file and ends the same way.
FirstRun ==
    /\ csv_file.written
    /\ ~viewer.cached
    /\ viewer.status = "idle"
    /\ \E hdr \in HeaderChoices :
          LET res == load_metadata(csv_file.rows, hdr)
          IN  viewer' =
                 IF res.status = "loaded" THEN FirstRender(res.df, res.missing)
                 ELSE [ViewerIdle EXCEPT !.status = res.status,
                                         !.missing = res.missing,
                                         !.has_rel_path = "rel_path" \in hdr,
                                         !.report = res.report]
    /\ UNCHANGED <<name, parsed, listing, idx, rows, errors, csv_file>>

\* Viewer: a rerun after the user changed widgets; st.cache_data returns
\* the table loaded before.  What a run shows depends on that table and on
\* the widget values alone, so one rerun with any widget values stands for
\* every later run of the session.
Rerun ==
    /\ viewer.cached
    /\ viewer.first
    /\ viewer.status = "shown"
    /\ LET df == viewer.df
       IN  \E view_mode \in ViewModes, group_axis \in GroupAxes, q \in Queries :
           \E choice \in {df[i][PinnedColumn(view_mode)] : i \in 1..Len(df)} :
           LET d1 == TextFilter(df, q)
           IN  \E sm \in Selections(Options(d1, "method")),
                  sl \in Selections(Options(d1, "location")),
                  so \in Selections(Options(d1, "mode")) :
               LET s3 == [method |-> sm, location |-> sl, mode |-> so,
                          magnification |-> {}]
               IN  \E sg \in Selections(Options(FacetFilter(d1, s3), "magnification")) :
                      viewer' = Render(df, viewer.missing, FALSE, view_mode,
                                       group_axis, choice, q,
                                       [s3 EXCEPT !.magnification = sg])
    /\ UNCHANGED <<name, parsed, listing, idx, rows, errors, csv_file>>

Next == ScanStep \/ WriteCsv \/ FirstRun

Spec == Init /\ [][Next]_vars

\* The viewer's session on a metadata.csv the generator wrote.
InitView ==
    /\ name = <<>>
    /\ parsed = NotCalled
    /\ listing = <<>>
    /\ idx = 1
    /\ rows = <<>>
    /\ errors = <<>>
    /\ csv_file \in {[written |-> TRUE, rows |-> t] : t \in CsvFiles}
    /\ viewer = ViewerIdle

NextView == FirstRun \/ Rerun

SpecView == InitView /\ [][NextView]_vars

----------------------------------------------------------------------------
(* Properties of parse_filename, checked under SpecParse.                  *)

TokensOf(n) == Split(PathStem(n), Sep)

EndsWith(s, t) == Len(s) >= Len(t) /\ SubSeq(s, Len(s) - Len(t) + 1, Len(s)) = t

Decimal(m, e) == [present |-> TRUE, mant |-> m, exp |-> e]

\* C1: a file name whose stem has n >= 5 tokens parses; method, location,
\* mode and magnification are tokens 1, 2, n-1 and n; sample is token 3 when
\* n = 5 and tokens 3..n-2 rejoined with "_" otherwise; the five fields
\* joined with "_" give back the stem, so no token is dropped or duplicated.
C1_FieldsAreTokens ==
    parsed.called =>
        LET t == TokensOf(name)
            n == Len(t)
            r == parsed.result
        IN  n >= 5 =>
               /\ r.ok
               /\ r.method = t[1]
               /\ r.location = t[2]
               /\ r.mode = t[n - 1]
               /\ r.magnification = t[n]
               /\ n = 5 => r.sample = t[3]
               /\ n > 5 => r.sample = Join(SubSeq(t, 3, n - 2), Sep)
               /\ Join(<<r.method, r.location, r.sample, r.mode, r.magnification>>,
                       Sep) = PathStem(name)

\* A parsed name of seven tokens whose sample keeps two separators.
C1_Witness ==
    /\ parsed.called
    /\ Len(TokensOf(name)) = 7
    /\ parsed.result.ok
    /\ Cardinality({i \in 1..Len(parsed.result.sample) :
                       parsed.result.sample[i] = Sep}) = 2
    /\ parsed.result.sample # <<Sep, Sep>>

\* C3: after a successful parse, method, location and mode are non-empty.
C3_KeyFieldsNonEmpty ==
    (parsed.called /\ parsed.result.ok) =>
        /\ parsed.result.method # <<>>
        /\ parsed.result.location # <<>>
        /\ parsed.result.mode # <<>>

\* C4: a stem ending in _10x or _10X has magnification_value 10.0, one
\* ending in _10_5x has 10.5 (the "_" inside the magnification read as a
\* decimal point), and one ending in _NA has no magnification_value while
\* the record is produced with magnification NA.
C4_MagnificationValue ==
    (parsed.called /\ Len(TokensOf(name)) >= 5) =>
        LET stem == PathStem(name)
            r == parsed.result
        IN  /\ r.ok
            /\ EndsWith(stem, <<Sep>> \o S_10x) => r.magnification_value = Decimal(10, 0)
            /\ EndsWith(stem, <<Sep, "1", "0", "X">>) =>
                  r.magnification_value = Decimal(10, 0)
            /\ EndsWith(stem, <<Sep>> \o S_10 \o <<Sep>> \o S_5x) =>
                  r.magnification_value = Decimal(105, 1)
            /\ EndsWith(stem, <<Sep>> \o S_NA) =>
                  r.magnification_value = NoValue /\ r.magnification = S_NA

----------------------------------------------------------------------------
(* Properties of the generator and of the reload, checked under Spec.      *)

Allowed(p) == p.is_file /\ Lower(PathSuffix(p.name)) \in exts

Count(seq, n) == Cardinality({j \in 1..Len(seq) : seq[j].filename = n})

Position(n) == CHOOSE i \in 1..Len(listing) : listing[i].name = n

\* C2: of the entries the loop has passed, every file with an allowed
\* extension is exactly once a row or an error (an error exactly when its
\* stem has fewer than 5 tokens), no other entry is either, and the rows
\* are in scan order.
C2_EveryFileOnce ==
    /\ \A i \in 1..(idx - 1) :
          LET p == listing[i]
              nrow == Count(rows, p.name)
              nerr == Count(errors, p.name)
          IN  IF Allowed(p)
              THEN /\ nrow + nerr = 1
                   /\ nerr = 1 <=> Len(TokensOf(p.name)) < 5
              ELSE nrow + nerr = 0
    /\ \A j \in 1..Len(rows) : Position(rows[j].filename) < idx
    /\ \A j \in 1..Len(errors) : Position(errors[j].filename) < idx
    /\ \A j, k \in 1..Len(rows) :
          j < k => Position(rows[j].filename) < Position(rows[k].filename)

\* The loop went on after a failure: 2 rows and 1 error, the failing entry
\* not the last one handled.
C2_Witness ==
    /\ idx = Len(listing) + 1
    /\ Len(rows) = 2
    /\ Len(errors) = 1
    /\ Position(errors[1].filename) < Position(rows[2].filename)

Loaded == viewer.status \in {"shown", "no_data"}

\* C5: a table written by the generator and reloaded from a file with all
\* 9 columns has, row for row, the values the generator wrote.
C5_RoundTrip ==
    (Loaded /\ viewer.missing = {}) =>
        /\ Len(viewer.df) = Len(rows)
        /\ \A i \in 1..Len(rows) : \A c \in ColumnSet : viewer.df[i][c] = rows[i][c]

EightColumns == ColumnSet \ {"magnification_value"}

----------------------------------------------------------------------------
(* Properties of one viewer run, checked under SpecView.                   *)

\* text is a literal substring of s.
LiteralIn(text, s) ==
    \E start \in 0..(Len(s) - Len(text)) : SubSeq(s, start + 1, start + Len(text)) = text

\* Row r satisfies the run's five facets, the search text taken literally.
Matches(r) ==
    LET text == Lower(Strip(viewer.q))
    IN  /\ text # <<>> => (LiteralIn(text, Lower(r.sample))
                           \/ LiteralIn(text, Lower(r.filename)))
        /\ r.method \in viewer.sel.method
        /\ r.location \in viewer.sel.location
        /\ r.mode \in viewer.sel.mode
        /\ r.magnification \in viewer.sel.magnification

\* C6: every row shown in a group satisfies the run's filter configuration.
C6_ShownRowsAreFiltered ==
    viewer.status = "shown" =>
        \A g \in 1..Len(viewer.groups) :
            \A j \in 1..Len(viewer.groups[g].rows) : Matches(viewer.groups[g].rows[j])

\* C7: filtered_df returns exactly the rows that satisfy the five facets,
\* the search text taken literally, in their order in the table.
C7_FilterIsConjunction ==
    viewer.status = "shown" => viewer.filtered = SelectSeq(viewer.df, Matches)

\* C8: with an empty search text and every selection equal to the options
\* its multiselect offers, filtered_df returns the table unchanged.
C8_IdentityFilter ==
    (viewer.status = "shown" /\ Strip(viewer.q) = <<>> /\ viewer.sel = viewer.offered)
        => viewer.filtered = viewer.df

\* A first run, every widget at its default, over a table of three rows
\* one of which was read with a missing mode.
C8_Witness ==
    /\ viewer.status = "shown"
    /\ viewer.first
    /\ viewer.q = <<>>
    /\ viewer.sel = viewer.offered
    /\ Len(viewer.df) = 3
    /\ \E i \in 1..3 : viewer.df[i].mode = S_nan
    /\ viewer.filtered = viewer.df

RowsOf(g) == {viewer.groups[g].rows[j] : j \in 1..Len(viewer.groups[g].rows)}

RECURSIVE TotalRows(_)
TotalRows(groups) ==
    IF groups = <<>> THEN 0 ELSE Len(Head(groups).rows) + TotalRows(Tail(groups))

\* C9: the groups hold only rows whose pinned field is the pinned value,
\* each such row in exactly one group, the one of its secondary value; the
\* groups are in ascending order of that value and the rows of a group in
\* ascending filename order; without a matching row there is no group.
C9_Grouping ==
    LET col == PinnedColumn(viewer.view_mode)
        axis == viewer.group_axis
        df == viewer.df
        groups == viewer.groups
        matching == {i \in 1..Len(df) : df[i][col] = viewer.choice}
    IN  /\ viewer.status = "no_data" => groups = <<>> /\ df = <<>>
        /\ viewer.status = "shown" =>
              /\ \A g \in 1..Len(groups) :
                    /\ groups[g].rows # <<>>
                    /\ \A j \in 1..Len(groups[g].rows) :
                          /\ groups[g].rows[j][col] = viewer.choice
                          /\ groups[g].rows[j][axis] = groups[g].key
                          /\ \E i \in matching : df[i] = groups[g].rows[j]
                    /\ \A j \in 1..(Len(groups[g].rows) - 1) :
                          StrLeq(groups[g].rows[j].filename,
                                 groups[g].rows[j + 1].filename)
              /\ \A i \in matching :
                    Cardinality({g \in 1..Len(groups) : df[i] \in RowsOf(g)}) = 1
              /\ TotalRows(groups) = Cardinality(matching)
              /\ \A g \in 1..(Len(groups) - 1) : StrLt(groups[g].key, groups[g + 1].key)
              /\ matching = {} => groups = <<>>

\* Two groups, one of two rows, shown in an order that is not the table's,
\* with the filter narrowing the table at the same time.
C9_Witness ==
    /\ viewer.status = "shown"
    /\ Len(viewer.groups) = 2
    /\ \E g \in 1..2 : Len(viewer.groups[g].rows) = 2
    /\ viewer.groups[1].rows[1] # viewer.df[1]
    /\ Len(viewer.filtered) < Len(viewer.df)

====
